---- MODULE Spec2Model ----
(***************************************************************************)
(* Echo Journal backend: the aggregation and response-shaping services     *)
(* (journal_service, dashboard_service) over the document store handler    *)
(* (mongodb_handler) and the generation handler (gemini_handler).          *)
(*                                                                         *)
(* Text is a sequence of one-character strings.  An instant is an integer  *)
(* number of ticks since 1970-01-01T00:00Z (the store keeps dates as an    *)
(* offset from that epoch); a datetime is a record of calendar fields.     *)
(***************************************************************************)
EXTENDS Integers, Sequences, FiniteSets, TLC

VARIABLES
    journals,            \* the documents of the "journals" collection
    weekly_reflections,  \* the documents of the "weekly_reflections" collection
    client,              \* gemini_handler.client: TRUE when genai.Client initialised
    userdata,            \* the documents of the "userdata" collection
    unique_index,        \* TRUE when the store rejects a second document of a UID
    now,                 \* the instant datetime.now(timezone.utc) returns
    tasks,               \* the register_user calls in progress, one per task
    req,                 \* the request being served
    resp,                \* its response
    calls                \* the store and generation calls it made, in order

vars ==
    <<journals, weekly_reflections, client, userdata, unique_index, now, tasks,
      req, resp, calls>>

\* what a handler that serves one request in req, resp and calls leaves alone
others == <<journals, weekly_reflections, client, userdata, unique_index, now, tasks>>

(***************************************************************************)
(* Bounds of the model.                                                    *)
(***************************************************************************)
\* ticks in a day: the resolution of an instant
TicksPerDay == 3
\* most documents in the store, all collections together
MaxDocs == 3
\* years tried beyond each end of the accepted range
YearMargin == 1

(***************************************************************************)
(* Program constants.                                                      *)
(***************************************************************************)
MinYear == 1900
MaxYear == 2100
MinMonth == 1
MaxMonth == 12
MonthsBefore == 2
MonthsAfter == 3
PastDays == 7
HTTP_200_OK == 200
HTTP_400_BAD_REQUEST == 400
HTTP_404_NOT_FOUND == 404
HTTP_500_INTERNAL_SERVER_ERROR == 500

(***************************************************************************)
(* Characters and text.                                                    *)
(***************************************************************************)
DigitChars == <<"0", "1", "2", "3", "4", "5", "6", "7", "8", "9">>

IsDigit(c) == \E i \in 1..10 : DigitChars[i] = c

DigitVal(c) == (CHOOSE i \in 1..10 : DigitChars[i] = c) - 1

IsSpace(c) == c \in {" ", "\t", "\n", "\r"}

\* code point order of the characters a date string is made of
CharCode(c) == IF c = "-" THEN 45 ELSE 48 + DigitVal(c)

\* s < t in the store's binary string order
RECURSIVE StrLess(_, _)
StrLess(s, t) ==
    IF t = <<>> THEN FALSE
    ELSE IF s = <<>> THEN TRUE
    ELSE IF CharCode(Head(s)) # CharCode(Head(t))
         THEN CharCode(Head(s)) < CharCode(Head(t))
    ELSE StrLess(Tail(s), Tail(t))

\* str.strip(): whitespace removed at both ends
RECURSIVE LStrip(_)
LStrip(s) == IF s # <<>> /\ IsSpace(Head(s)) THEN LStrip(Tail(s)) ELSE s

RECURSIVE RStrip(_)
RStrip(s) ==
    IF s # <<>> /\ IsSpace(s[Len(s)]) THEN RStrip(SubSeq(s, 1, Len(s) - 1)) ELSE s

Strip(s) == RStrip(LStrip(s))

(***************************************************************************)
(* int(str) of Python: surrounding whitespace, an optional sign, decimal   *)
(* digits with single underscores between them; anything else raises       *)
(* ValueError.                                                             *)
(***************************************************************************)
RECURSIVE DigitsValue(_, _)
DigitsValue(s, acc) ==
    IF s = <<>> THEN acc
    ELSE IF Head(s) = "_" THEN DigitsValue(Tail(s), acc)
    ELSE DigitsValue(Tail(s), 10 * acc + DigitVal(Head(s)))

IntLiteralBody(s) ==
    /\ s # <<>>
    /\ IsDigit(s[1])
    /\ IsDigit(s[Len(s)])
    /\ \A i \in 1..Len(s) : IsDigit(s[i]) \/ s[i] = "_"
    /\ \A i \in 1..(Len(s) - 1) : ~(s[i] = "_" /\ s[i + 1] = "_")

PyInt(str) ==
    LET t == Strip(str)
        signed == t # <<>> /\ Head(t) \in {"+", "-"}
        body == IF signed THEN Tail(t) ELSE t
    IN  IF IntLiteralBody(body)
        THEN [ok |-> TRUE,
              val |-> IF signed /\ Head(t) = "-"
                      THEN 0 - DigitsValue(body, 0)
                      ELSE DigitsValue(body, 0)]
        ELSE [ok |-> FALSE, val |-> 0]

(***************************************************************************)
(* Calendar: the proleptic Gregorian calendar of datetime and of the       *)
(* store's date operators.                                                 *)
(***************************************************************************)
IsLeap(y) == (y % 4 = 0) /\ ((y % 100 # 0) \/ (y % 400 = 0))

\* calendar.monthrange(year, month)[1]
DaysInMonth(y, m) ==
    IF m = 2 THEN (IF IsLeap(y) THEN 29 ELSE 28)
    ELSE IF m \in {4, 6, 9, 11} THEN 30
    ELSE 31

\* days from 1970-01-01 to the civil date y-m-d
DaysFromCivil(y, m, d) ==
    LET yy == IF m <= 2 THEN y - 1 ELSE y
        era == yy \div 400
        yoe == yy - era * 400
        mp == (m + 9) % 12
        doy == (153 * mp + 2) \div 5 + d - 1
        doe == yoe * 365 + yoe \div 4 - yoe \div 100 + doy
    IN  era * 146097 + doe - 719468

\* the civil date of the day z days after 1970-01-01
CivilFromDays(z) ==
    LET zz == z + 719468
        era == zz \div 146097
        doe == zz - era * 146097
        yoe == (doe - doe \div 1460 + doe \div 36524 - doe \div 146096) \div 365
        doy == doe - (365 * yoe + yoe \div 4 - yoe \div 100)
        mp == (5 * doy + 2) \div 153
        d == doy - (153 * mp + 2) \div 5 + 1
        m == IF mp < 10 THEN mp + 3 ELSE mp - 9
        y == yoe + era * 400
    IN  [year |-> IF m <= 2 THEN y + 1 ELSE y, month |-> m, day |-> d]

\* datetime(year, month, day, tzinfo=timezone.utc)
DateTimeUTC(y, m, d) == [year |-> y, month |-> m, day |-> d, tick |-> 0]

\* the instant a UTC datetime is stored and compared as
ToInstant(dt) == DaysFromCivil(dt.year, dt.month, dt.day) * TicksPerDay + dt.tick

\* the month arithmetic without the carry into the year
RelativeDeltaMonths_NoCarry(dt, n) ==
    LET m0 == dt.month + n
        month == IF m0 > 12 THEN m0 - 12 ELSE IF m0 < 1 THEN m0 + 12 ELSE m0
    IN  [year |-> dt.year, month |-> month, day |-> dt.day, tick |-> dt.tick]

\* dt + relativedelta(months=n), for 1 <= |n| <= 12
RelativeDeltaMonths(dt, n) ==
    LET m0 == dt.month + n
        year == IF m0 > 12 THEN dt.year + 1 ELSE IF m0 < 1 THEN dt.year - 1 ELSE dt.year
        month == IF m0 > 12 THEN m0 - 12 ELSE IF m0 < 1 THEN m0 + 12 ELSE m0
        last == DaysInMonth(year, month)
    IN  [year |-> year, month |-> month,
         day |-> IF dt.day < last THEN dt.day ELSE last, tick |-> dt.tick]

\* n written in decimal with at least w digits, zero filled
RECURSIVE ZeroPad(_, _)
ZeroPad(n, w) ==
    IF w <= 0 /\ n = 0 THEN <<>>
    ELSE ZeroPad(n \div 10, w - 1) \o <<DigitChars[(n % 10) + 1]>>

\* $dateToString with format "%Y-%m-%d" and timezone "UTC"
DateToString(instant) ==
    LET c == CivilFromDays(instant \div TicksPerDay)
    IN  ZeroPad(c.year, 4) \o <<"-">> \o ZeroPad(c.month, 2) \o <<"-">> \o ZeroPad(c.day, 2)

\* the $sort stage on the string key, ascending
RECURSIVE SortAscending(_)
SortAscending(S) ==
    IF S = {} THEN <<>>
    ELSE LET least == CHOOSE s \in S : \A t \in S \ {s} : StrLess(s, t)
         IN  <<least>> \o SortAscending(S \ {least})

(***************************************************************************)
(* Document field values: a string or null.  A document is a record of    *)
(* the fields it has.                                                      *)
(***************************************************************************)
Str(s) == [t |-> "str", s |-> s]

Null == [t |-> "null", s |-> <<>>]

\* dict.get(field): None where the document lacks the field
Get(doc, field) == IF field \in DOMAIN doc THEN doc[field] ELSE Null

\* Python truth of a field value: None and "" are false
Truthy(v) == v.t = "str" /\ v.s # <<>>

(***************************************************************************)
(* mongodb_handler: the queries on the journals collection.                *)
(***************************************************************************)
\* the $match stage with $lte for $lt
MatchInRange_ClosedEnd(uid, start_date, end_date) ==
    {j \in journals : /\ j.UID = uid
                      /\ j.created_at >= ToInstant(start_date)
                      /\ j.created_at <= ToInstant(end_date)}

\* the $match stage: the user's documents created in [start_date, end_date)
MatchInRange(uid, start_date, end_date) ==
    {j \in journals : /\ j.UID = uid
                      /\ j.created_at >= ToInstant(start_date)
                      /\ j.created_at < ToInstant(end_date)}

\* the $project and $group stages: one key per distinct date string
GroupByDate(docs) == {DateToString(j.created_at) : j \in docs}

\* the whole handler; failed: the aggregation raised
get_distinct_journal_dates_in_range(uid, start_date, end_date, failed) ==
    IF failed THEN <<>>
    ELSE SortAscending(GroupByDate(MatchInRange(uid, start_date, end_date)))

\* the find() filter without the "UID" key
MatchPastDays_AnyUser(uid, days) ==
    {j \in journals : /\ j.created_at >= now - days * TicksPerDay
                      /\ j.created_at < now
                      /\ "prompt" \in DOMAIN j
                      /\ j.prompt # Str(<<>>)}

\* the find() filter of get_journals_for_user_past_days
MatchPastDays(uid, days) ==
    {j \in journals : /\ j.UID = uid
                      /\ j.created_at >= now - days * TicksPerDay
                      /\ j.created_at < now
                      /\ "prompt" \in DOMAIN j
                      /\ j.prompt # Str(<<>>)}

\* the projection {"prompt": 1, "created_at": 1, "_id": 0}
ProjectPrompt(j) == [prompt |-> j.prompt, created_at |-> j.created_at]

\* the orders of a sort with the oldest document first
SortedDescending_Ascending(docs) ==
    {order \in [1..Cardinality(docs) -> docs] :
        /\ \A i, k \in DOMAIN order : i # k => order[i] # order[k]
        /\ \A i, k \in DOMAIN order : i < k => order[i].created_at <= order[k].created_at}

\* the orders .sort("created_at", -1) may return the documents in
SortedDescending(docs) ==
    {order \in [1..Cardinality(docs) -> docs] :
        /\ \A i, k \in DOMAIN order : i # k => order[i] # order[k]
        /\ \A i, k \in DOMAIN order : i < k => order[i].created_at >= order[k].created_at}

\* the lists the handler may return; failed: the query raised
get_journals_for_user_past_days(uid, days, failed) ==
    IF failed THEN {<<>>}
    ELSE {[i \in DOMAIN order |-> ProjectPrompt(order[i])] :
             order \in SortedDescending(MatchPastDays(uid, days))}

(***************************************************************************)
(* mongodb_handler: the query on the weekly_reflections collection.  An   *)
(* Optional result is <<>> for None and <<doc>> for a document.            *)
(***************************************************************************)
\* find_one({"UID": uid}, sort=[("created_at", -1)]): a document of the user
\* than which none is more recent
LatestWeekly(uid) ==
    {w \in weekly_reflections :
        /\ w.UID = uid
        /\ \A v \in weekly_reflections : v.UID = uid => v.created_at <= w.created_at}

\* the results the handler may return; failed: the query raised
get_latest_weekly_reflection_for_user(uid, failed) ==
    IF failed \/ LatestWeekly(uid) = {} THEN {<<>>}
    ELSE {<<w>> : w \in LatestWeekly(uid)}

(***************************************************************************)
(* gemini_handler.generate_emotion_breakdown_async                         *)
(***************************************************************************)
UpperLetters ==
    {"A", "B", "C", "D", "E", "F", "G", "H", "I", "J", "K", "L", "M",
     "N", "O", "P", "Q", "R", "S", "T", "U", "V", "W", "X", "Y", "Z"}

LowerLetters ==
    {"a", "b", "c", "d", "e", "f", "g", "h", "i", "j", "k", "l", "m",
     "n", "o", "p", "q", "r", "s", "t", "u", "v", "w", "x", "y", "z"}

\* the class [a-zA-Z\s] of the pattern's first group
IsNameChar(c) == c \in UpperLetters \/ c \in LowerLetters \/ IsSpace(c)

\* "\n---\n".join(parts)
PromptSeparator == <<"\n", "-", "-", "-", "\n">>

RECURSIVE Join(_, _)
Join(sep, parts) ==
    IF parts = <<>> THEN <<>>
    ELSE IF Len(parts) = 1 THEN parts[1]
    ELSE parts[1] \o sep \o Join(sep, Tail(parts))

AnalyzePrefix ==
    <<"A", "n", "a", "l", "y", "z", "e", " ", "t", "h", "e", " ", "f", "o",
      "l", "l", "o", "w", "i", "n", "g", " ", "j", "o", "u", "r", "n", "a",
      "l", " ", "e", "n", "t", "r", "i", "e", "s", ":", "\n", "\n">>

\* the f-string the prompts are sent in
FullPrompt(journal_prompts) == AnalyzePrefix \o Join(PromptSeparator, journal_prompts)

\* the first index >= i of text that does not satisfy the class, or Len + 1
RunEnd(text, i, InClass(_)) ==
    IF i > Len(text) THEN i
    ELSE CHOOSE k \in i..(Len(text) + 1) :
             /\ \A j \in i..(k - 1) : InClass(text[j])
             /\ k = Len(text) + 1 \/ ~InClass(text[k])

\* the match of ([a-zA-Z\s]+)\s*-\s*(\d+(?:\.\d+)?) that starts at i, if any:
\* the first group takes the whole run of name characters, which leaves
\* \s* empty before the hyphen
MatchAt(text, i) ==
    LET e1 == RunEnd(text, i, IsNameChar)
        d0 == RunEnd(text, e1 + 1, IsSpace)
        d1 == RunEnd(text, d0, IsDigit)
        f1 == RunEnd(text, d1 + 1, IsDigit)
        fraction == d1 <= Len(text) /\ text[d1] = "." /\ f1 > d1 + 1
        stop == IF fraction THEN f1 ELSE d1
    IN  IF e1 > i /\ e1 <= Len(text) /\ text[e1] = "-" /\ d1 > d0
        THEN [found |-> TRUE, name |-> SubSeq(text, i, e1 - 1),
              percent_str |-> SubSeq(text, d0, stop - 1), next |-> stop]
        ELSE [found |-> FALSE, name |-> <<>>, percent_str |-> <<>>, next |-> i + 1]

\* the tuple of groups findall keeps of a match, nothing where there is none
Groups(m) ==
    IF m.found THEN <<[name |-> m.name, percent_str |-> m.percent_str]>> ELSE <<>>

\* pattern.findall(text) from index i on: the (name, percent_str) pairs of
\* the non-overlapping matches, left to right
RECURSIVE FindAll(_, _)
FindAll(text, i) ==
    IF i > Len(text) THEN <<>>
    ELSE LET m == MatchAt(text, i)
         IN  Groups(m) \o FindAll(text, m.next)

RECURSIVE Pow10(_)
Pow10(n) == IF n = 0 THEN 1 ELSE 10 * Pow10(n - 1)

RECURSIVE DropTrailingZeros(_)
DropTrailingZeros(s) ==
    IF s # <<>> /\ s[Len(s)] = "0" THEN DropTrailingZeros(SubSeq(s, 1, Len(s) - 1)) ELSE s

\* float(percent_str) of digits[.digits]: the decimal num / den, den the
\* least power of ten
Float(percent_str) ==
    LET dot == RunEnd(percent_str, 1, IsDigit)
        whole == SubSeq(percent_str, 1, dot - 1)
        frac == DropTrailingZeros(SubSeq(percent_str, dot + 1, Len(percent_str)))
    IN  [num |-> DigitsValue(whole \o frac, 0), den |-> Pow10(Len(frac))]

\* 0 <= percentage alone
InPercentRange_NoUpperLimit(percentage) == 0 <= percentage.num

\* 0 <= percentage <= 100
InPercentRange(percentage) ==
    0 <= percentage.num /\ percentage.num <= 100 * percentage.den

\* a dict whose assignment to a key it holds is lost
DictSet_KeepFirst(dict, key, value) ==
    IF \E i \in DOMAIN dict : dict[i].emotion = key
    THEN dict
    ELSE Append(dict, [emotion |-> key, percentage |-> value])

\* a dict whose assignment to a key it holds moves the key to the end
DictSet_MoveToEnd(dict, key, value) ==
    Append(SelectSeq(dict, LAMBDA item : item.emotion # key),
           [emotion |-> key, percentage |-> value])

\* emotions_dict[emotion_name] = percentage on an insertion-ordered dict,
\* kept as the sequence of its items
DictSet(dict, key, value) ==
    IF \E i \in DOMAIN dict : dict[i].emotion = key
    THEN [i \in DOMAIN dict |->
             IF dict[i].emotion = key THEN [emotion |-> key, percentage |-> value]
             ELSE dict[i]]
    ELSE Append(dict, [emotion |-> key, percentage |-> value])

\* the loop over the matches
RECURSIVE CollectEmotions(_, _)
CollectEmotions(matches, emotions_dict) ==
    IF matches = <<>> THEN emotions_dict
    ELSE LET emotion_name == Strip(Head(matches).name)
             percentage == Float(Head(matches).percent_str)
         IN  CollectEmotions(Tail(matches),
                 IF InPercentRange(percentage)
                 THEN DictSet(emotions_dict, emotion_name, percentage)
                 ELSE emotions_dict)

\* the end of the parsing without the check for an empty dict
ReturnEmotions_EmptyDict(emotions_dict) == [none |-> FALSE, dict |-> emotions_dict]

\* the end of the parsing: None for an empty dict, the dict otherwise
ReturnEmotions(emotions_dict) ==
    IF emotions_dict = <<>> THEN [none |-> TRUE, dict |-> <<>>]
    ELSE [none |-> FALSE, dict |-> emotions_dict]

\* the parsing from the matches on: None where there is no match
ParseMatches(matches) ==
    IF matches = <<>> THEN [none |-> TRUE, dict |-> <<>>]
    ELSE ReturnEmotions(CollectEmotions(matches, <<>>))

\* the two None results of the parsing, and the dict it returns otherwise
ParseResponseText(text) == ParseMatches(FindAll(text, 1))

\* texts the generation service may answer with
GenTexts ==
    {
      <<>>,
      <<"H", "a", "p", "p", "y", "-", "3", "0", ",", "E", "x", "c", "i", "t",
        "e", "d", "-", "2", "3", ",", "D", "i", "s", "a", "p", "p", "o", "i",
        "n", "t", "-", "1", "2", ",", "C", "u", "r", "i", "o", "s", "i", "t",
        "y", "-", "2", "0", ",", "C", "a", "l", "m", "-", "1", "5">>,
      <<"S", "a", "d", "-", "3", "0", ",", "S", "e", "l", "f", " ", "C", "r",
        "i", "t", "i", "c", "i", "z", "i", "n", "g", "-", "4", "5", ",", "D",
        "e", "m", "o", "t", "i", "v", "a", "t", "e", "d", "-", "2", "5">>,
      <<"S", "a", "d", "-", "1", "5", "0", ",", "C", "a", "l", "m", "-", "4",
        "0">>,
      <<"A", "-", "1", ",", "B", "-", "2">>,
      <<"A", "-", "1", ",", "B", "-", "2", ",", "C", "-", "3", ",", "D", "-",
        "4", ",", "E", "-", "5", ",", "F", "-", "6">>,
      <<"A", "-", "1", ",", "B", "-", "2", ",", "A", "-", "3", ",", "C", "-",
        "4">>,
      <<"A", "-", "2", "0", "0", ",", "B", "-", "2", ",", "A", "-", "3", ",",
        "C", " ", "4", ",", " ", "D", " ", "-", " ", "5", ".", "5", "0">>,
      <<"A", "-", "1", ".", ",", "B", "-", ".", "5", ",", " ", "-", "7">>,
      <<"n", "o", " ", "e", "m", "o", "t", "i", "o", "n", "s", " ", "f", "o",
        "u", "n", "d">> }

\* what client.aio.models.generate_content may do: raise AttributeError,
\* raise another exception, or return a response whose text is a string or
\* is missing
GenOutcomes ==
    {[kind |-> "attribute_error", text |-> Null],
     [kind |-> "exception", text |-> Null],
     [kind |-> "response", text |-> Null]}
        \cup {[kind |-> "response", text |-> Str(t)] : t \in GenTexts}

\* the system instruction of the emotion breakdown, by its name
SYSTEM_PROMPT_EMOTION_BREAKDOWN == Str(<<"SYSTEM_PROMPT_EMOTION_BREAKDOWN">>)

\* the request of generate_emotion_breakdown_async: GenerateContentConfig()
\* is built without a system instruction
EmotionRequest(journal_prompts, outcome) ==
    [svc |-> "generation", op |-> "generate_content",
     system_instruction |-> Null,
     contents |-> <<FullPrompt(journal_prompts)>>,
     outcome |-> outcome]

\* what the handler returns after the call `made`, from the parsing's result
AfterCall(parsed, made) ==
    [raised |-> FALSE, none |-> parsed.none, dict |-> parsed.dict, calls |-> made]

\* the handler sending its request a second time when the call fails
generate_emotion_breakdown_async_Retry(journal_prompts, outcome) ==
    IF ~client
    THEN [raised |-> TRUE, none |-> FALSE, dict |-> <<>>, calls |-> <<>>]
    ELSE IF journal_prompts = <<>>
    THEN [raised |-> FALSE, none |-> TRUE, dict |-> <<>>, calls |-> <<>>]
    ELSE IF outcome.kind = "attribute_error"
    THEN [raised |-> TRUE, none |-> FALSE, dict |-> <<>>,
          calls |-> <<EmotionRequest(journal_prompts, outcome)>>]
    ELSE IF outcome.kind = "exception" \/ ~Truthy(outcome.text)
    THEN [raised |-> FALSE, none |-> TRUE, dict |-> <<>>,
          calls |-> <<EmotionRequest(journal_prompts, outcome),
                      EmotionRequest(journal_prompts, outcome)>>]
    ELSE AfterCall(ParseResponseText(outcome.text.s),
                   <<EmotionRequest(journal_prompts, outcome)>>)

\* the handler: raised when it raises RuntimeError, none when it returns
\* None, and the calls it made
generate_emotion_breakdown_async(journal_prompts, outcome) ==
    IF ~client
    THEN [raised |-> TRUE, none |-> FALSE, dict |-> <<>>, calls |-> <<>>]
    ELSE IF journal_prompts = <<>>
    THEN [raised |-> FALSE, none |-> TRUE, dict |-> <<>>, calls |-> <<>>]
    ELSE LET made == <<EmotionRequest(journal_prompts, outcome)>>
         IN  IF outcome.kind = "attribute_error"
             THEN [raised |-> TRUE, none |-> FALSE, dict |-> <<>>, calls |-> made]
             ELSE IF outcome.kind = "exception" \/ ~Truthy(outcome.text)
             THEN [raised |-> FALSE, none |-> TRUE, dict |-> <<>>, calls |-> made]
             ELSE AfterCall(ParseResponseText(outcome.text.s), made)

(***************************************************************************)
(* Responses.                                                              *)
(***************************************************************************)
NoBody == <<>>

\* no request is being served
NoRequest == [op |-> "none"]

NoResponse == [status |-> 0, detail |-> "", body |-> NoBody]

\* a returned payload
Success(body) == [status |-> HTTP_200_OK, detail |-> "", body |-> body]

\* raise HTTPException(status_code, detail)
Failure(status_code, detail) == [status |-> status_code, detail |-> detail, body |-> NoBody]

(***************************************************************************)
(* journal_service.get_past_entry_dates                                    *)
(***************************************************************************)
\* step 1 without the check of the year's range
ValidateYearMonth_NoYearRange(year_str, month_str) ==
    LET y == PyInt(year_str)
        m == PyInt(month_str)
    IN  IF ~y.ok \/ ~m.ok THEN [ok |-> FALSE, year |-> 0, month |-> 0]
        ELSE IF ~(MinMonth <= m.val /\ m.val <= MaxMonth)
             THEN [ok |-> FALSE, year |-> y.val, month |-> m.val]
        ELSE [ok |-> TRUE, year |-> y.val, month |-> m.val]

\* step 1: int() of both strings and the range checks; ok is FALSE where
\* the code raises ValueError
ValidateYearMonth(year_str, month_str) ==
    LET y == PyInt(year_str)
        m == PyInt(month_str)
    IN  IF ~y.ok \/ ~m.ok THEN [ok |-> FALSE, year |-> 0, month |-> 0]
        ELSE IF ~(MinMonth <= m.val /\ m.val <= MaxMonth)
             THEN [ok |-> FALSE, year |-> y.val, month |-> m.val]
        ELSE IF ~(MinYear <= y.val /\ y.val <= MaxYear)
             THEN [ok |-> FALSE, year |-> y.val, month |-> m.val]
        ELSE [ok |-> TRUE, year |-> y.val, month |-> m.val]

\* step 2: the five-month range around the requested month
StartDate(year, month) == RelativeDeltaMonths(DateTimeUTC(year, month, 1), 0 - MonthsBefore)

EndDate(year, month) == RelativeDeltaMonths(DateTimeUTC(year, month, 1), MonthsAfter)

\* the aggregation the handler runs
DatesQuery(uid, start_date, end_date, failed) ==
    [svc |-> "store", op |-> "aggregate", coll |-> "journals", uid |-> uid,
     start_date |-> start_date, end_date |-> end_date, failed |-> failed]

get_past_entry_dates(uid, year_str, month_str, failed) ==
    LET v == ValidateYearMonth(year_str, month_str)
        start_date == StartDate(v.year, v.month)
        end_date == EndDate(v.year, v.month)
    IN  /\ req' = [op |-> "past_entries", uid |-> uid,
                   year |-> year_str, month |-> month_str]
        /\ IF ~v.ok
           THEN /\ resp' = Failure(HTTP_400_BAD_REQUEST, "Invalid year or month format")
                /\ calls' = <<>>
           ELSE /\ resp' = Success(get_distinct_journal_dates_in_range(
                                       uid, start_date, end_date, failed))
                /\ calls' = <<DatesQuery(uid, start_date, end_date, failed)>>
        /\ UNCHANGED others

(***************************************************************************)
(* dashboard_service.get_emotional_breakdown                               *)
(***************************************************************************)
MinEmotions == 3
MaxEmotions == 5

\* the find() the handler runs
RecentQuery(uid, days, failed) ==
    [svc |-> "store", op |-> "find", coll |-> "journals", uid |-> uid,
     days |-> days, failed |-> failed]

\* step 2 without its filter: a prompt of every document, "" for None
ExtractPrompts_AllPrompts(recent_journals) ==
    [i \in DOMAIN recent_journals |-> Get(recent_journals[i], "prompt").s]

\* step 2: the truthy prompts of the documents, in their order
RECURSIVE ExtractPrompts(_)
ExtractPrompts(recent_journals) ==
    IF recent_journals = <<>> THEN <<>>
    ELSE LET prompt == Get(Head(recent_journals), "prompt")
         IN  (IF Truthy(prompt) THEN <<prompt.s>> ELSE <<>>)
                 \o ExtractPrompts(Tail(recent_journals))

\* step 5 with min_length alone
ValidBreakdown_NoMaxLength(emotion_list) == MinEmotions <= Len(emotion_list)

\* step 5: the min_length and max_length of EmotionalBreakdownResponse.emotions
ValidBreakdown(emotion_list) ==
    MinEmotions <= Len(emotion_list) /\ Len(emotion_list) <= MaxEmotions

\* the response model of one item
EmotionPercentage(emotion, percentage) == [emotion |-> emotion, percentage |-> percentage]

\* step 4 cut to its first MinEmotions items
EmotionList_Truncated(items) ==
    [i \in 1..(IF Len(items) < MinEmotions THEN Len(items) ELSE MinEmotions) |->
        EmotionPercentage(items[i].emotion, items[i].percentage)]

\* step 4: the loop over emotion_results.items(); a label is a str and a
\* percentage a float, which EmotionPercentage always accepts
RECURSIVE EmotionList(_)
EmotionList(items) ==
    IF items = <<>> THEN <<>>
    ELSE <<EmotionPercentage(Head(items).emotion, Head(items).percentage)>>
             \o EmotionList(Tail(items))

\* steps 3 to 5, on what the generation handler did
FormatBreakdown(emotion_results) ==
    LET emotion_list == EmotionList(emotion_results.dict)
    IN  IF emotion_results.raised
        THEN [resp |-> Failure(HTTP_500_INTERNAL_SERVER_ERROR,
                               "An unexpected error occurred while fetching the emotional breakdown."),
              calls |-> emotion_results.calls]
        ELSE IF emotion_results.none
        THEN [resp |-> Failure(HTTP_500_INTERNAL_SERVER_ERROR,
                               "Failed to generate emotional breakdown from AI analysis."),
              calls |-> emotion_results.calls]
        ELSE IF emotion_list = <<>>
        THEN [resp |-> Failure(HTTP_500_INTERNAL_SERVER_ERROR,
                               "AI analysis returned no valid emotions."),
              calls |-> emotion_results.calls]
        ELSE IF ~ValidBreakdown(emotion_list)
        THEN [resp |-> Failure(HTTP_500_INTERNAL_SERVER_ERROR,
                               "Failed to format emotional breakdown response"),
              calls |-> emotion_results.calls]
        ELSE [resp |-> Success(emotion_list), calls |-> emotion_results.calls]

\* steps 1 to 5, on the documents the store returned
BreakdownResponse(recent_journals, outcome) ==
    IF recent_journals = <<>>
    THEN [resp |-> Failure(HTTP_404_NOT_FOUND,
                           "No recent journal entries found to perform emotional analysis."),
          calls |-> <<>>]
    ELSE IF ExtractPrompts(recent_journals) = <<>>
    THEN [resp |-> Failure(HTTP_500_INTERNAL_SERVER_ERROR,
                           "Failed to process journal entries for analysis."),
          calls |-> <<>>]
    ELSE FormatBreakdown(
             generate_emotion_breakdown_async(ExtractPrompts(recent_journals), outcome))

get_emotional_breakdown(uid, failed, outcome) ==
    \E recent_journals \in get_journals_for_user_past_days(uid, PastDays, failed) :
        \E r \in {BreakdownResponse(recent_journals, outcome)} :
            /\ req' = [op |-> "emotional_breakdown", uid |-> uid]
            /\ resp' = r.resp
            /\ calls' = <<RecentQuery(uid, PastDays, failed)>> \o r.calls
            /\ UNCHANGED others

(***************************************************************************)
(* dashboard_service.get_latest_weekly_reflection (the later definition,   *)
(* which is the one the module ends up with)                               *)
(***************************************************************************)
\* the find_one() the handler runs
LatestWeeklyQuery(uid, failed) ==
    [svc |-> "store", op |-> "find_one", coll |-> "weekly_reflections",
     uid |-> uid, failed |-> failed]

\* steps 1 to 3, on the handler's result
WeeklyResponse(latest_reflection_doc) ==
    IF latest_reflection_doc = <<>>
    THEN Failure(HTTP_404_NOT_FOUND, "No weekly reflection found for this user.")
    ELSE LET reflection_text == Get(latest_reflection_doc[1], "weekly_reflection")
         IN  IF ~Truthy(reflection_text)
             THEN Failure(HTTP_404_NOT_FOUND, "Weekly reflection content is missing or empty.")
             ELSE Success(reflection_text.s)

get_latest_weekly_reflection(uid, failed) ==
    \E latest_reflection_doc \in get_latest_weekly_reflection_for_user(uid, failed) :
        /\ req' = [op |-> "weekly_reflection", uid |-> uid]
        /\ resp' = WeeklyResponse(latest_reflection_doc)
        /\ calls' = <<LatestWeeklyQuery(uid, failed)>>
        /\ UNCHANGED others

(***************************************************************************)
(* models/user.py and the userdata queries of mongodb_handler.  An         *)
(* Optional result is <<>> for None and <<value>> for a value.             *)
(***************************************************************************)
HTTP_201_CREATED == 201
HTTP_409_CONFLICT == 409

\* UserInDB(**user_doc): UID and Uname are required and the streaks default
\* to 0; <<>> where the model raises a validation error
UserInDB(user_doc) ==
    IF "UID" \in DOMAIN user_doc /\ "Uname" \in DOMAIN user_doc
    THEN <<[UID |-> user_doc.UID, Uname |-> user_doc.Uname,
            Ustreak |-> IF "Ustreak" \in DOMAIN user_doc THEN user_doc.Ustreak ELSE 0,
            UL_streak |-> IF "UL_streak" \in DOMAIN user_doc THEN user_doc.UL_streak ELSE 0]>>
    ELSE <<>>

\* UserResponse(UID=..., Uname=..., Ustreak=..., UL_streak=...)
UserResponse(user_db) ==
    [UID |-> user_db.UID, Uname |-> user_db.Uname,
     Ustreak |-> user_db.Ustreak, UL_streak |-> user_db.UL_streak]

\* user_collection.find_one({"UID": uid}): a document of the UID, whichever
\* the store comes to first, or None
FindOneUser(uid) ==
    IF \A d \in userdata : d.UID # uid THEN {<<>>}
    ELSE {<<d>> : d \in {e \in userdata : e.UID = uid}}

\* what get_user_by_uid may return when find_one does not raise
get_user_by_uid(uid) ==
    {IF user_doc = <<>> THEN <<>> ELSE UserInDB(user_doc[1]) : user_doc \in FindOneUser(uid)}

\* the _id the store gives an inserted document
ObjectId ==
    IF userdata = {} THEN 1
    ELSE 1 + (CHOOSE m \in {d.id : d \in userdata} : \A d \in userdata : d.id <= m)

\* the new document with a daily streak of one
NewUserDoc_StreakOne(user_data) ==
    [id |-> ObjectId, UID |-> user_data.UID, Uname |-> user_data.Uname,
     Ustreak |-> 1, UL_streak |-> 0]

\* lines 84-91 of create_new_user, with the _id insert_one adds
NewUserDoc(user_data) ==
    [id |-> ObjectId, UID |-> user_data.UID, Uname |-> user_data.Uname,
     Ustreak |-> 0, UL_streak |-> 0]

\* insert_one raises DuplicateKeyError: the collection has a unique index
\* on UID and a document of the UID
DuplicateKey(uid) == unique_index /\ \E d \in userdata : d.UID = uid

(***************************************************************************)
(* user_service.get_user_info behind GET /user_init                        *)
(***************************************************************************)
\* the find_one() of get_user_by_uid
UserQuery(uid, failed) ==
    [svc |-> "store", op |-> "find_one", coll |-> "userdata", uid |-> uid,
     failed |-> failed]

UserInfoResponse(user_db) ==
    IF user_db = <<>>
    THEN Failure(HTTP_404_NOT_FOUND, "User with UID '{uid}' not found.")
    ELSE Success(UserResponse(user_db[1]))

\* the responses of the route; failed: find_one raised, which the service
\* lets through to the route's handler of unexpected errors
UserInfoResponses(uid, failed) ==
    IF failed
    THEN {Failure(HTTP_500_INTERNAL_SERVER_ERROR,
                  "An unexpected error occurred while fetching user data.")}
    ELSE {UserInfoResponse(user_db) : user_db \in get_user_by_uid(uid)}

\* the lookup writing the documents of the UID back with a streak of zero
get_user_info_Resets(uid, failed) ==
    /\ req' = [op |-> "user_info", uid |-> uid]
    /\ calls' = <<UserQuery(uid, failed)>>
    /\ resp' \in UserInfoResponses(uid, failed)
    /\ userdata' = {IF d.UID = uid THEN [d EXCEPT !.Ustreak = 0] ELSE d : d \in userdata}
    /\ UNCHANGED <<journals, weekly_reflections, client, unique_index, now, tasks>>

get_user_info(uid, failed) ==
    /\ req' = [op |-> "user_info", uid |-> uid]
    /\ calls' = <<UserQuery(uid, failed)>>
    /\ resp' \in UserInfoResponses(uid, failed)
    /\ UNCHANGED others

(***************************************************************************)
(* user_service.register_user behind POST /user_init.  The call suspends   *)
(* at each await of the store, and the calls of other tasks run meanwhile: *)
(* pc is the await the task is about to make.                              *)
(***************************************************************************)
\* tasks that may run register_user at once
NumTasks == 2

Tasks == 1..NumTasks

\* created_user is the local of create_new_user: what its re-read returned
IdleTask ==
    [pc |-> "idle", UID |-> "", Uname |-> "", created_user |-> <<>>, resp |-> NoResponse]

\* the task is between its awaits
Awaiting(user_create_data, pc) ==
    [pc |-> pc, UID |-> user_create_data.UID, Uname |-> user_create_data.Uname,
     created_user |-> <<>>, resp |-> NoResponse]

\* the call is over with a response
Returned(user_create_data, response) ==
    [pc |-> "done", UID |-> user_create_data.UID, Uname |-> user_create_data.Uname,
     created_user |-> <<>>, resp |-> response]

\* the payload of POST /user_init
UserCreate(task) == [UID |-> task.UID, Uname |-> task.Uname]

\* the route's success status with the payload
Created(body) == [status |-> HTTP_201_CREATED, detail |-> "", body |-> body]

\* the service without its existence check
AfterExistenceCheck_NoConflict(user_create_data, existing_user) ==
    Awaiting(user_create_data, "insert_one")

\* after the existence check: 409 where a user came back, else on to the insert
AfterExistenceCheck(user_create_data, existing_user) ==
    IF existing_user # <<>>
    THEN Returned(user_create_data,
                  Failure(HTTP_409_CONFLICT, "User with UID '{UID}' already exists."))
    ELSE Awaiting(user_create_data, "insert_one")

\* the service answering from its payload whatever the re-read returned
AfterReread_CreatedAnyway(user_create_data, created_user) ==
    [Returned(user_create_data,
              Created([UID |-> user_create_data.UID, Uname |-> user_create_data.Uname,
                       Ustreak |-> 0, UL_streak |-> 0]))
        EXCEPT !.created_user = created_user]

\* after the re-read of create_new_user: ValueError where nothing came back
AfterReread(user_create_data, created_user) ==
    IF created_user = <<>>
    THEN Returned(user_create_data,
                  Failure(HTTP_500_INTERNAL_SERVER_ERROR,
                          "Failed to register user due to a database error."))
    ELSE [Returned(user_create_data, Created(UserResponse(created_user[1])))
             EXCEPT !.created_user = created_user]

\* register_user up to its first await's result; failed: find_one raised,
\* outside any try of the service
RegisterCheck(t, user_create_data, failed) ==
    /\ tasks[t].pc = "idle"
    /\ IF failed
       THEN tasks' = [tasks EXCEPT ![t] =
                Returned(user_create_data,
                         Failure(HTTP_500_INTERNAL_SERVER_ERROR,
                                 "An unexpected error occurred while creating the user."))]
       ELSE \E existing_user \in get_user_by_uid(user_create_data.UID) :
                tasks' = [tasks EXCEPT ![t] =
                             AfterExistenceCheck(user_create_data, existing_user)]
    /\ UNCHANGED <<journals, weekly_reflections, client, userdata, unique_index, now,
                   req, resp, calls>>

\* create_new_user's insert_one; failed: it raised for another reason than
\* a duplicate key
RegisterInsert(t, failed) ==
    /\ tasks[t].pc = "insert_one"
    /\ IF failed \/ DuplicateKey(tasks[t].UID)
       THEN /\ tasks' = [tasks EXCEPT ![t] =
                   Returned(UserCreate(tasks[t]),
                            Failure(HTTP_500_INTERNAL_SERVER_ERROR,
                                    "Failed to register user due to a database error."))]
            /\ UNCHANGED userdata
       ELSE /\ userdata' = userdata \cup {NewUserDoc(UserCreate(tasks[t]))}
            /\ tasks' = [tasks EXCEPT ![t] = Awaiting(UserCreate(tasks[t]), "get_user_by_uid")]
    /\ UNCHANGED <<journals, weekly_reflections, client, unique_index, now,
                   req, resp, calls>>

\* create_new_user's re-read and the service's return; failed: find_one raised
RegisterReread(t, failed) ==
    /\ tasks[t].pc = "get_user_by_uid"
    /\ IF failed
       THEN tasks' = [tasks EXCEPT ![t] = AfterReread(UserCreate(tasks[t]), <<>>)]
       ELSE \E created_user \in get_user_by_uid(tasks[t].UID) :
                tasks' = [tasks EXCEPT ![t] = AfterReread(UserCreate(tasks[t]), created_user)]
    /\ UNCHANGED <<journals, weekly_reflections, client, userdata, unique_index, now,
                   req, resp, calls>>

\* the response of the call is sent and the task is free again
RegisterRespond(t) ==
    /\ tasks[t].pc = "done"
    /\ tasks' = [tasks EXCEPT ![t] = IdleTask]
    /\ UNCHANGED <<journals, weekly_reflections, client, userdata, unique_index, now,
                   req, resp, calls>>

(***************************************************************************)
(* gemini_handler.generate_single_reflection_async and                     *)
(* anonymous_service.process_anonymous_reflection behind POST /anonymous   *)
(***************************************************************************)
\* the system instruction of the reflection request, by its name
SYSTEM_PROMPT_REFLECTION == Str(<<"SYSTEM_PROMPT_REFLECTION">>)

\* str(n) of an int
IntToText(n) == IF n < 0 THEN <<"-">> \o ZeroPad(0 - n, 1) ELSE ZeroPad(n, 1)

\* f"emotions,{emotions}"
EmotionsPart(emotions) ==
    <<"e", "m", "o", "t", "i", "o", "n", "s", ",">> \o IntToText(emotions)

\* str.strip(chars) for one character
RECURSIVE LStripChar(_, _)
LStripChar(s, c) == IF s # <<>> /\ Head(s) = c THEN LStripChar(Tail(s), c) ELSE s

RECURSIVE RStripChar(_, _)
RStripChar(s, c) ==
    IF s # <<>> /\ s[Len(s)] = c THEN RStripChar(SubSeq(s, 1, Len(s) - 1), c) ELSE s

StripChar(s, c) == RStripChar(LStripChar(s, c), c)

\* response.text.strip().strip('"')
CleanReflection(text) == StripChar(Strip(text), "\"")

\* the request of generate_single_reflection_async
ReflectionRequest(prompt, emotions, outcome) ==
    [svc |-> "generation", op |-> "generate_content",
     system_instruction |-> SYSTEM_PROMPT_REFLECTION,
     contents |-> <<prompt, EmotionsPart(emotions)>>,
     outcome |-> outcome]

\* the handler calling the service again after a call that gave no text
generate_single_reflection_async_Retry(prompt, emotions, outcome) ==
    IF ~client
    THEN [raised |-> TRUE, none |-> FALSE, text |-> <<>>, calls |-> <<>>]
    ELSE IF outcome.kind = "attribute_error"
    THEN [raised |-> TRUE, none |-> FALSE, text |-> <<>>,
          calls |-> <<ReflectionRequest(prompt, emotions, outcome)>>]
    ELSE IF outcome.kind # "response" \/ ~Truthy(outcome.text)
    THEN [raised |-> FALSE, none |-> TRUE, text |-> <<>>,
          calls |-> <<ReflectionRequest(prompt, emotions, outcome),
                      ReflectionRequest(prompt, emotions, outcome)>>]
    ELSE [raised |-> FALSE, none |-> FALSE, text |-> CleanReflection(outcome.text.s),
          calls |-> <<ReflectionRequest(prompt, emotions, outcome)>>]

\* the handler: raised when it raises RuntimeError, none when it returns
\* None, and the calls it made
generate_single_reflection_async(prompt, emotions, outcome) ==
    IF ~client
    THEN [raised |-> TRUE, none |-> FALSE, text |-> <<>>, calls |-> <<>>]
    ELSE IF outcome.kind = "attribute_error"
    THEN [raised |-> TRUE, none |-> FALSE, text |-> <<>>,
          calls |-> <<ReflectionRequest(prompt, emotions, outcome)>>]
    ELSE IF outcome.kind # "response" \/ ~Truthy(outcome.text)
    THEN [raised |-> FALSE, none |-> TRUE, text |-> <<>>,
          calls |-> <<ReflectionRequest(prompt, emotions, outcome)>>]
    ELSE [raised |-> FALSE, none |-> FALSE, text |-> CleanReflection(outcome.text.s),
          calls |-> <<ReflectionRequest(prompt, emotions, outcome)>>]

\* the JSON content of the route's 200
ReflectionContent(reflection) == [status |-> "success", reflection |-> reflection]

\* the service without its check for None
AnonymousResponse_NoneIsText(reflection_result) ==
    IF reflection_result.raised
    THEN Failure(HTTP_500_INTERNAL_SERVER_ERROR,
                 "An unexpected error occurred while generating the reflection.")
    ELSE Success(ReflectionContent(reflection_result.text))

\* the service and the route, on what the generation handler did
AnonymousResponse(reflection_result) ==
    IF reflection_result.raised
    THEN Failure(HTTP_500_INTERNAL_SERVER_ERROR,
                 "An unexpected error occurred while generating the reflection.")
    ELSE IF reflection_result.none
    THEN Failure(HTTP_500_INTERNAL_SERVER_ERROR,
                 "Could not generate reflection at this time. Please try again later.")
    ELSE Success(ReflectionContent(reflection_result.text))

process_anonymous_reflection(prompt, emotions, outcome) ==
    \E reflection_result \in {generate_single_reflection_async(prompt, emotions, outcome)} :
        /\ req' = [op |-> "anonymous", prompt |-> prompt, emotions |-> emotions]
        /\ resp' = AnonymousResponse(reflection_result)
        /\ calls' = reflection_result.calls
        /\ UNCHANGED others

(***************************************************************************)
(* The store's contents and the requests' inputs.                          *)
(***************************************************************************)
Uids == {"u1", "u2"}

\* tick k of the day y-m-d
At(y, m, d, k) == DaysFromCivil(y, m, d) * TicksPerDay + k

LastTick == TicksPerDay - 1

\* datetime.now(timezone.utc) of the requests
NowInstants == {At(2025, 5, 1, 1)}

\* documents the journal write path may have stored
JournalUniverse ==
    { [id |-> 1, UID |-> "u1", created_at |-> At(2024, 11, 30, LastTick),
       prompt |-> Str(<<"p", "1">>)],
      [id |-> 2, UID |-> "u1", created_at |-> At(2024, 12, 1, 0),
       prompt |-> Str(<<"p", "2">>)],
      [id |-> 3, UID |-> "u1", created_at |-> At(2024, 12, 1, 1),
       prompt |-> Str(<<"p", "1">>)],
      [id |-> 4, UID |-> "u1", created_at |-> At(2025, 4, 30, LastTick),
       prompt |-> Str(<<>>)],
      [id |-> 5, UID |-> "u1", created_at |-> At(2025, 5, 1, 0),
       prompt |-> Str(<<"p", "3">>)],
      [id |-> 6, UID |-> "u2", created_at |-> At(2025, 4, 30, 0),
       prompt |-> Str(<<"p", "2">>)],
      [id |-> 7, UID |-> "u1", created_at |-> At(2025, 4, 24, 1),
       prompt |-> Str(<<"p", "2">>)],
      [id |-> 8, UID |-> "u1", created_at |-> At(2025, 4, 24, 0),
       prompt |-> Str(<<"p", "1">>)],
      [id |-> 9, UID |-> "u1", created_at |-> At(2025, 4, 29, 0)],
      [id |-> 10, UID |-> "u1", created_at |-> At(2025, 4, 28, 0), prompt |-> Null],
      [id |-> 11, UID |-> "u1", created_at |-> At(2025, 5, 1, 1),
       prompt |-> Str(<<"p", "1">>)] }

\* documents the weekly batch may have stored
WeeklyUniverse ==
    { [id |-> 1, UID |-> "u1", created_at |-> At(2025, 4, 20, 0),
       weekly_reflection |-> Str(<<"r", "1">>)],
      [id |-> 2, UID |-> "u1", created_at |-> At(2025, 4, 27, 0),
       weekly_reflection |-> Str(<<>>)],
      [id |-> 3, UID |-> "u1", created_at |-> At(2025, 4, 27, 0),
       weekly_reflection |-> Str(<<" ", "r", "2">>)],
      [id |-> 4, UID |-> "u1", created_at |-> At(2025, 4, 28, 0)],
      [id |-> 5, UID |-> "u2", created_at |-> At(2025, 4, 29, 0),
       weekly_reflection |-> Str(<<"r", "3">>)] }

\* a year as the router's YYYY pattern admits it
YearString(y) == ZeroPad(y, 4)

\* a month as the router's MM pattern admits it
MonthString(m) == ZeroPad(m, 2)

\* strings int() rejects, or reads as a number all the same
OddStrings ==
    { <<>>, <<"a", "b">>, <<"1", ".", "5">>, <<"-", "3">>, <<"+", "5">>,
      <<" ", "7", " ">>, <<"1", "_", "2">>, <<"2", "0", "x", "5">>, <<"_", "1">> }

AllYearStrings ==
    {YearString(y) : y \in (MinYear - YearMargin)..(MaxYear + YearMargin)}
        \cup OddStrings \cup {<<"2", "_", "0", "2", "5">>}

AllMonthStrings ==
    {MonthString(m) : m \in (MinMonth - 1)..(MaxMonth + 1)} \cup OddStrings

SomeYearStrings == {YearString(2024), YearString(2025), <<"2", "0", "x", "5">>}

SomeMonthStrings == {MonthString(m) : m \in {1, 2, 13}}

Init ==
    /\ \E J \in SUBSET JournalUniverse, W \in SUBSET WeeklyUniverse :
          /\ Cardinality(J) + Cardinality(W) <= MaxDocs
          /\ journals = J
          /\ weekly_reflections = W
    /\ client \in BOOLEAN
    /\ userdata = {}
    /\ unique_index = FALSE
    /\ now \in NowInstants
    /\ tasks = [t \in Tasks |-> IdleTask]
    /\ req = NoRequest
    /\ resp = NoResponse
    /\ calls = <<>>

\* GET /past_entries
PastEntries ==
    /\ req = NoRequest
    /\ \E uid \in Uids, year_str \in SomeYearStrings, month_str \in SomeMonthStrings,
          failed \in BOOLEAN :
           get_past_entry_dates(uid, year_str, month_str, failed)

\* GET /emotional_breakdown
EmotionalBreakdown ==
    /\ req = NoRequest
    /\ \E uid \in Uids, failed \in BOOLEAN, outcome \in GenOutcomes :
           get_emotional_breakdown(uid, failed, outcome)

\* GET /weekly_reflection
WeeklyReflection ==
    /\ req = NoRequest
    /\ \E uid \in Uids, failed \in BOOLEAN : get_latest_weekly_reflection(uid, failed)

\* the response is sent and the request is over
Deliver ==
    /\ req # NoRequest
    /\ req' = NoRequest
    /\ resp' = NoResponse
    /\ calls' = <<>>
    /\ UNCHANGED others

Next == PastEntries \/ EmotionalBreakdown \/ WeeklyReflection \/ Deliver

Spec == Init /\ [][Next]_vars

(***************************************************************************)
(* The date range of get_past_entry_dates over every year and month        *)
(* string, on one store.                                                   *)
(***************************************************************************)
InitRange ==
    /\ journals = {j \in JournalUniverse : j.id \in {1, 2, 3, 5}}
    /\ weekly_reflections = {}
    /\ client = TRUE
    /\ userdata = {}
    /\ unique_index = FALSE
    /\ now \in NowInstants
    /\ tasks = [t \in Tasks |-> IdleTask]
    /\ req = NoRequest
    /\ resp = NoResponse
    /\ calls = <<>>

PastEntriesAnyInput ==
    /\ req = NoRequest
    /\ \E uid \in Uids, year_str \in AllYearStrings, month_str \in AllMonthStrings,
          failed \in BOOLEAN :
           get_past_entry_dates(uid, year_str, month_str, failed)

NextRange == PastEntriesAnyInput \/ Deliver

SpecRange == InitRange /\ [][NextRange]_vars

(***************************************************************************)
(* Every endpoint, one request at a time, on a store that holds user       *)
(* documents.                                                              *)
(***************************************************************************)
\* documents earlier registrations left, the streaks of the first updated
\* since
UserUniverse ==
    { [id |-> 1, UID |-> "u1", Uname |-> "Gary", Ustreak |-> 15, UL_streak |-> 2],
      [id |-> 2, UID |-> "u2", Uname |-> "Ann", Ustreak |-> 0, UL_streak |-> 0] }

\* display names of the registrations
Names == {"Ann", "Bob"}

\* the payloads of POST /user_init
UserCreates == [UID : Uids, Uname : Names]

\* the payloads of POST /anonymous
SomePrompts == {<<"h", "i">>, <<>>}

SomeEmotions == {2, 0 - 1}

\* every text of at most n characters of chars
TextsUpTo(chars, n) == UNION {[1..k -> chars] : k \in 0..n}

\* what generate_content may do for a reflection: raise AttributeError,
\* raise another exception, return nothing, or return a response whose text
\* is one of texts or is missing
ReflectionOutcomes(texts) ==
    {[kind |-> "attribute_error", text |-> Null],
     [kind |-> "exception", text |-> Null],
     [kind |-> "no_response", text |-> Null],
     [kind |-> "response", text |-> Null]}
        \cup {[kind |-> "response", text |-> Str(t)] : t \in texts}

SomeReflectionTexts ==
    {<<>>, <<"o", "k">>, <<" ", "\"", "o", "k", "\"", "\n">>, <<"\"", "\"">>}

\* no request and no registration is in progress
Quiet == req = NoRequest /\ \A t \in Tasks : tasks[t].pc = "idle"

InitAll ==
    /\ journals = {j \in JournalUniverse : j.id \in {3, 7}}
    /\ weekly_reflections = {w \in WeeklyUniverse : w.id = 1}
    /\ client \in BOOLEAN
    /\ userdata \in SUBSET UserUniverse
    /\ unique_index \in BOOLEAN
    /\ now \in NowInstants
    /\ tasks = [t \in Tasks |-> IdleTask]
    /\ req = NoRequest
    /\ resp = NoResponse
    /\ calls = <<>>

\* GET /user_init
UserInfo ==
    /\ req = NoRequest
    /\ \E uid \in Uids, failed \in BOOLEAN : get_user_info(uid, failed)

\* POST /anonymous
Anonymous ==
    /\ req = NoRequest
    /\ \E prompt \in SomePrompts, emotions \in SomeEmotions,
          outcome \in ReflectionOutcomes(SomeReflectionTexts) :
           process_anonymous_reflection(prompt, emotions, outcome)

\* POST /user_init: a task takes the call and makes the existence check
RegisterStart ==
    \E t \in Tasks, user_create_data \in UserCreates, failed \in BOOLEAN :
        RegisterCheck(t, user_create_data, failed)

RegisterInserts == \E t \in Tasks, failed \in BOOLEAN : RegisterInsert(t, failed)

RegisterRereads == \E t \in Tasks, failed \in BOOLEAN : RegisterReread(t, failed)

RegisterResponds == \E t \in Tasks : RegisterRespond(t)

NextAll ==
    \/ Quiet /\ PastEntries
    \/ Quiet /\ EmotionalBreakdown
    \/ Quiet /\ WeeklyReflection
    \/ Quiet /\ UserInfo
    \/ Quiet /\ Anonymous
    \/ Quiet /\ RegisterStart
    \/ RegisterInserts
    \/ RegisterRereads
    \/ RegisterResponds
    \/ Deliver

SpecAll == InitAll /\ [][NextAll]_vars

(***************************************************************************)
(* Registrations that run at once.                                         *)
(***************************************************************************)
InitRegister ==
    /\ journals = {}
    /\ weekly_reflections = {}
    /\ client = TRUE
    /\ userdata \in SUBSET UserUniverse
    /\ unique_index \in BOOLEAN
    /\ now \in NowInstants
    /\ tasks = [t \in Tasks |-> IdleTask]
    /\ req = NoRequest
    /\ resp = NoResponse
    /\ calls = <<>>

NextRegister == RegisterStart \/ RegisterInserts \/ RegisterRereads \/ RegisterResponds

SpecRegister == InitRegister /\ [][NextRegister]_vars

(***************************************************************************)
(* Registrations on a collection that other writers share: it may hold a   *)
(* document UserInDB does not parse, which get_user_by_uid answers with    *)
(* None.  The store answers every call.                                    *)
(***************************************************************************)
\* a document of the UID u1 without a Uname
LegacyUniverse == { [id |-> 3, UID |-> "u1", Ustreak |-> 4, UL_streak |-> 1] }

InitLegacy ==
    /\ journals = {}
    /\ weekly_reflections = {}
    /\ client = TRUE
    /\ userdata \in SUBSET (UserUniverse \cup LegacyUniverse)
    /\ unique_index \in BOOLEAN
    /\ unique_index => \A d, e \in userdata : d.UID = e.UID => d = e
    /\ now \in NowInstants
    /\ tasks = [t \in Tasks |-> IdleTask]
    /\ req = NoRequest
    /\ resp = NoResponse
    /\ calls = <<>>

\* documents the collection holds when the last call is taken
MaxProfiles == 3

\* POST /user_init, the existence check answered
RegisterStartAnswered ==
    /\ Cardinality(userdata) < MaxProfiles
    /\ \E t \in Tasks, user_create_data \in UserCreates :
           RegisterCheck(t, user_create_data, FALSE)

\* the insert, which only a duplicate key may refuse
RegisterInsertsAnswered == \E t \in Tasks : RegisterInsert(t, FALSE)

\* the re-read, answered
RegisterRereadsAnswered == \E t \in Tasks : RegisterReread(t, FALSE)

NextLegacy ==
    \/ RegisterStartAnswered
    \/ RegisterInsertsAnswered
    \/ RegisterRereadsAnswered
    \/ RegisterResponds

SpecLegacy == InitLegacy /\ [][NextLegacy]_vars

(***************************************************************************)
(* The anonymous reflection over every short text the generation service   *)
(* may return.                                                             *)
(***************************************************************************)
\* longest text tried
MaxRawLen == 4

RawChars == {" ", "\n", "\"", "a"}

InitAnonymous ==
    /\ journals = {}
    /\ weekly_reflections = {}
    /\ client \in BOOLEAN
    /\ userdata = {}
    /\ unique_index = FALSE
    /\ now \in NowInstants
    /\ tasks = [t \in Tasks |-> IdleTask]
    /\ req = NoRequest
    /\ resp = NoResponse
    /\ calls = <<>>

AnonymousAnyText ==
    /\ req = NoRequest
    /\ \E prompt \in SomePrompts, emotions \in SomeEmotions,
          outcome \in ReflectionOutcomes(TextsUpTo(RawChars, MaxRawLen)) :
           process_anonymous_reflection(prompt, emotions, outcome)

NextAnonymous == AnonymousAnyText \/ Deliver

SpecAnonymous == InitAnonymous /\ [][NextAnonymous]_vars

(***************************************************************************)
(* The emotion breakdown of the generation handler over every short        *)
(* response text.                                                          *)
(***************************************************************************)
\* longest text tried
MaxTextLen == 5

TextChars == {"a", " ", "-", "1", "0", "."}

\* a handler's return value, where there is no HTTP response
Value(v) == [status |-> 0, detail |-> "", body |-> v]

InitParse ==
    /\ journals = {}
    /\ weekly_reflections = {}
    /\ client = TRUE
    /\ userdata = {}
    /\ unique_index = FALSE
    /\ now \in NowInstants
    /\ tasks = [t \in Tasks |-> IdleTask]
    /\ req = NoRequest
    /\ resp = NoResponse
    /\ calls = <<>>

\* generate_emotion_breakdown_async called on prompts, the service answering text
BreakdownOfText(journal_prompts, text) ==
    \E emotion_results \in
          {generate_emotion_breakdown_async(journal_prompts,
                                            [kind |-> "response", text |-> Str(text)])} :
        /\ req' = [op |-> "generate_emotion_breakdown", text |-> text]
        /\ resp' = Value([raised |-> emotion_results.raised, none |-> emotion_results.none,
                          dict |-> emotion_results.dict])
        /\ calls' = emotion_results.calls
        /\ UNCHANGED others

BreakdownOfAnyText ==
    /\ req = NoRequest
    /\ \E text \in GenTexts \cup TextsUpTo(TextChars, MaxTextLen) :
           BreakdownOfText(<<<<"p", "1">>>>, text)

NextParse == BreakdownOfAnyText \/ Deliver

SpecParse == InitParse /\ [][NextParse]_vars

(***************************************************************************)
(* Properties.  They read a request's strings as int() does and use their  *)
(* own month and day arithmetic: months are counted from year 0, a date    *)
(* string is read back into its fields.                                    *)
(***************************************************************************)
IsPastEntries == req.op = "past_entries"

ReqYear == PyInt(req.year).val

ReqMonth == PyInt(req.month).val

\* the request names a year in [1900, 2100] and a month in [1, 12]
ReqYearMonthValid ==
    /\ PyInt(req.year).ok
    /\ PyInt(req.month).ok
    /\ ReqYear \in 1900..2100
    /\ ReqMonth \in 1..12

\* months since January of year 0
MonthIndex(y, m) == 12 * y + (m - 1)

\* 00:00 UTC on the first day of the month of that index
FirstOfMonth(idx) == [year |-> idx \div 12, month |-> (idx % 12) + 1, day |-> 1, tick |-> 0]

\* the claimed range of the request: [first of month - 2, first of month + 3)
ClaimedStart == FirstOfMonth(MonthIndex(ReqYear, ReqMonth) - 2)

ClaimedEnd == FirstOfMonth(MonthIndex(ReqYear, ReqMonth) + 3)

InClaimedRange(instant) ==
    /\ At(ClaimedStart.year, ClaimedStart.month, 1, 0) <= instant
    /\ instant < At(ClaimedEnd.year, ClaimedEnd.month, 1, 0)

\* s is YYYY-MM-DD and names the UTC day the instant falls on
IsDateOf(s, instant) ==
    /\ Len(s) = 10
    /\ s[5] = "-" /\ s[8] = "-"
    /\ \A i \in {1, 2, 3, 4, 6, 7, 9, 10} : IsDigit(s[i])
    /\ LET y == DigitsValue(SubSeq(s, 1, 4), 0)
           m == DigitsValue(SubSeq(s, 6, 7), 0)
           d == DigitsValue(SubSeq(s, 9, 10), 0)
       IN  /\ m \in 1..12
           /\ d \in 1..DaysInMonth(y, m)
           /\ At(y, m, d, 0) <= instant
           /\ instant < At(y, m, d, 0) + TicksPerDay

\* C1: for every year in [1900, 2100] and month in [1, 12],
\* get_past_entry_dates queries the store once, for the range that starts at
\* 00:00 UTC on the first day of the month two calendar months before and
\* ends at 00:00 UTC on the first day of the month three calendar months
\* after, the year rolling over where needed, and the start is before the end.
C1_RangeOfRequestedMonth ==
    (IsPastEntries /\ ReqYearMonthValid) =>
        /\ Len(calls) = 1
        /\ calls[1].op = "aggregate" /\ calls[1].coll = "journals"
        /\ calls[1].uid = req.uid
        /\ calls[1].start_date = ClaimedStart
        /\ calls[1].end_date = ClaimedEnd
        /\ ToInstant(calls[1].start_date) < ToInstant(calls[1].end_date)

\* the request for 2025-01 was served with the range [2024-11-01, 2025-04-01)
C1_Witness ==
    /\ IsPastEntries
    /\ req.year = <<"2", "0", "2", "5">> /\ req.month = <<"0", "1">>
    /\ Len(calls) = 1
    /\ calls[1].start_date = [year |-> 2024, month |-> 11, day |-> 1, tick |-> 0]
    /\ calls[1].end_date = [year |-> 2025, month |-> 4, day |-> 1, tick |-> 0]

\* C2: get_past_entry_dates answers 400 to every input whose month is outside
\* [1, 12], whose year is outside [1900, 2100] or whose year or month string
\* is not an integer; it returns no date list and does not query the store.
C2_InvalidInputRejected ==
    (IsPastEntries /\ ~ReqYearMonthValid) =>
        /\ resp.status = 400
        /\ resp.body = NoBody
        /\ calls = <<>>

\* month "13" of 2025 was answered 400
C2_Witness ==
    /\ IsPastEntries
    /\ req.year = <<"2", "0", "2", "5">> /\ req.month = <<"1", "3">>
    /\ resp.status = 400

\* C3: every date string get_past_entry_dates returns is the UTC calendar
\* date of a journal document of the requesting user whose created_at lies
\* in [first day of month - 2, first day of month + 3).
C3_DatesOfUserInRange ==
    (IsPastEntries /\ resp.status = 200) =>
        \A i \in DOMAIN resp.body :
            \E j \in journals :
                /\ j.UID = req.uid
                /\ InClaimedRange(j.created_at)
                /\ IsDateOf(resp.body[i], j.created_at)

\* 2025-02 was asked for a user with documents just before 2024-12-01, at
\* 2025-05-01T00:00 and inside the range, and only the one inside came back
C3_Witness ==
    /\ IsPastEntries
    /\ req.uid = "u1" /\ req.year = <<"2", "0", "2", "5">> /\ req.month = <<"0", "2">>
    /\ \E j \in journals : j.UID = "u1" /\ j.created_at = At(2024, 11, 30, LastTick)
    /\ \E j \in journals : j.UID = "u1" /\ j.created_at = At(2025, 5, 1, 0)
    /\ resp.status = 200
    /\ resp.body = <<<<"2", "0", "2", "4", "-", "1", "2", "-", "0", "1">>>>

\* C4: get_distinct_journal_dates_in_range returns exactly the distinct UTC
\* dates of the user's documents created in [start_date, end_date), each
\* once, in strictly ascending order, so that the result is a function of
\* the user, the range and the store's contents.
C4_ExactlyTheDistinctDates ==
    (IsPastEntries /\ resp.status = 200) =>
        /\ \A j \in journals :
               (/\ j.UID = req.uid
                /\ ToInstant(calls[1].start_date) <= j.created_at
                /\ j.created_at < ToInstant(calls[1].end_date))
                   => \E i \in DOMAIN resp.body : IsDateOf(resp.body[i], j.created_at)
        /\ \A i \in DOMAIN resp.body :
               \E j \in journals :
                   /\ j.UID = req.uid
                   /\ ToInstant(calls[1].start_date) <= j.created_at
                   /\ j.created_at < ToInstant(calls[1].end_date)
                   /\ IsDateOf(resp.body[i], j.created_at)
        /\ \A i, k \in DOMAIN resp.body : i < k => StrLess(resp.body[i], resp.body[k])

\* the same, of the queries that did not raise
C4_WhenQuerySucceeds == (Len(calls) = 1 /\ calls[1].failed) \/ C4_ExactlyTheDistinctDates

IsEmotionalBreakdown == req.op = "emotional_breakdown"

IsWeeklyReflection == req.op = "weekly_reflection"

\* the user's journal documents of the past 7 days, whatever their prompt
RecordsOfPastWeek(uid) ==
    {j \in journals : j.UID = uid /\ now - 7 * TicksPerDay <= j.created_at /\ j.created_at < now}

\* C5: get_emotional_breakdown for a user with no journal document in the
\* past 7 days answers 404 (no recent data), never a success.
C5_NoRecentData ==
    (IsEmotionalBreakdown /\ RecordsOfPastWeek(req.uid) = {}) =>
        /\ resp.status = 404
        /\ resp.detail = "No recent journal entries found to perform emotional analysis."
        /\ resp.body = NoBody

\* the store answered, the user had only a document older than 7 days by one
\* tick while another user had a recent one, and the answer was 404
C5_Witness ==
    /\ IsEmotionalBreakdown
    /\ req.uid = "u1"
    /\ ~calls[1].failed
    /\ \E j \in journals : j.UID = "u1" /\ j.created_at = now - 7 * TicksPerDay - 1
    /\ \E j \in journals : j.UID = "u2" /\ j \in RecordsOfPastWeek("u2")
    /\ RecordsOfPastWeek("u1") = {}
    /\ resp.status = 404

\* the generation service answered with a text
GotText == Len(calls) = 2 /\ calls[2].outcome.kind = "response" /\ Truthy(calls[2].outcome.text)

\* the mapping parsed from that text
ParsedMapping == ParseResponseText(calls[2].outcome.text.s)

\* C6: a successful emotional breakdown has between 3 and 5 items, and when
\* the mapping parsed from the generated text has fewer than 3 or more than
\* 5 entries the request ends in 500.
C6_BreakdownSize ==
    IsEmotionalBreakdown =>
        /\ resp.status = 200 => Len(resp.body) \in 3..5
        /\ (GotText /\ ~ParsedMapping.none /\ Len(ParsedMapping.dict) \notin 3..5)
               => resp.status = 500

\* six pairs were parsed and the request ended in 500
C6_Witness ==
    /\ IsEmotionalBreakdown
    /\ GotText
    /\ Len(ParsedMapping.dict) = 6
    /\ resp.status = 500

\* C7: when the query for the recent journal documents fails in the store,
\* get_emotional_breakdown answers with a server error, not with the 404 of
\* a user without recent documents.
C7_StoreErrorIsServerError ==
    (IsEmotionalBreakdown /\ calls[1].failed) => (resp.status = 500 /\ resp.status # 404)

\* C8: when the aggregation of the distinct dates fails in the store,
\* get_past_entry_dates answers 500, never a successful empty list.
C8_AggregationErrorIsServerError ==
    (IsPastEntries /\ calls # <<>> /\ calls[1].failed) => (resp.status = 500 /\ resp.status # 200)

\* the user's weekly reflection documents than which none is more recent
MostRecentWeekly(uid) ==
    {w \in weekly_reflections :
        /\ w.UID = uid
        /\ \A v \in weekly_reflections : v.UID = uid => v.created_at <= w.created_at}

\* the text of a weekly reflection document is missing or empty
NoText(w) ==
    \/ "weekly_reflection" \notin DOMAIN w
    \/ w.weekly_reflection = Null
    \/ w.weekly_reflection = Str(<<>>)

\* C9: get_latest_weekly_reflection is decided by the user's most recent
\* weekly reflection document alone: 404 when there is none or when its text
\* is missing or empty, whatever older documents hold, and otherwise exactly
\* its text.
C9_DecidedByMostRecent ==
    IsWeeklyReflection =>
        IF MostRecentWeekly(req.uid) = {}
        THEN resp.status = 404
        ELSE \E w \in MostRecentWeekly(req.uid) :
                 IF NoText(w) THEN resp.status = 404
                 ELSE resp.status = 200 /\ resp.body = w.weekly_reflection.s

\* the same, of the lookups that did not raise
C9_WhenLookupSucceeds == (Len(calls) = 1 /\ calls[1].failed) \/ C9_DecidedByMostRecent

\* C10: when the lookup of the latest weekly reflection fails in the store,
\* get_latest_weekly_reflection answers 500, not 404.
C10_LookupErrorIsServerError ==
    (IsWeeklyReflection /\ calls[1].failed) => (resp.status = 500 /\ resp.status # 404)

(***************************************************************************)
(* The user registry.                                                      *)
(***************************************************************************)
\* the store holds a document of the UID
HasProfile(uid) == \E d \in userdata : d.UID = uid

\* task t takes a register call in this step
Starts(t) == tasks[t].pc = "idle" /\ tasks'[t].pc # "idle"

\* the call of task t is over with this status
ReturnedWith(t, status_code) ==
    tasks[t].pc = "done" /\ tasks[t].resp.status = status_code

\* C11: with one call at a time, a register call for a UID that a successful
\* register left a profile of (profiles are never removed) returns 409 and
\* inserts nothing.
C11_LaterRegisterConflicts ==
    [][\A t \in Tasks :
          (Starts(t) /\ HasProfile(tasks'[t].UID))
              => /\ tasks'[t].pc = "done"
                 /\ tasks'[t].resp.status = 409
                 /\ userdata' = userdata]_vars

\* C11, amended: such a call returns 409, or 500 when the lookup of its
\* existence check raises; it inserts nothing either way.
C11_LaterRegisterConflictsOrStoreError ==
    [][\A t \in Tasks :
          (Starts(t) /\ HasProfile(tasks'[t].UID))
              => /\ tasks'[t].pc = "done"
                 /\ \/ tasks'[t].resp.status = 409
                    \/ /\ tasks'[t].resp.status = 500
                       /\ tasks'[t].resp.detail =
                              "An unexpected error occurred while creating the user."
                 /\ userdata' = userdata]_vars

\* a register of "u1" as "Bob" succeeded earlier and a later one as "Ann"
\* came back with 409
C11_Witness ==
    \E t \in Tasks :
        /\ ReturnedWith(t, 409)
        /\ tasks[t].UID = "u1"
        /\ tasks[t].Uname = "Ann"
        /\ \E d \in userdata : d.UID = "u1" /\ d.Uname = "Bob" /\ d \notin UserUniverse

\* the four values of a profile
Profile(uid, displayName, dailyStreak, secondaryStreak) ==
    [UID |-> uid, Uname |-> displayName, Ustreak |-> dailyStreak,
     UL_streak |-> secondaryStreak]

\* C12: a successful register returns the profile with both streaks 0, and
\* every response of a lookup of the UID made right after carries the same
\* four values.
C12_RegisterThenLookup ==
    \A t \in Tasks :
        ReturnedWith(t, 201)
            => /\ tasks[t].resp.body = Profile(tasks[t].UID, tasks[t].Uname, 0, 0)
               /\ \A failed \in BOOLEAN :
                      \A r \in UserInfoResponses(tasks[t].UID, failed) :
                          r.status = 200 /\ r.body = tasks[t].resp.body

\* C12, amended: the same, for the lookups whose store query does not raise;
\* one whose query raises ends in 500.
C12_RegisterThenLookupUnlessStoreError ==
    \A t \in Tasks :
        ReturnedWith(t, 201)
            => /\ tasks[t].resp.body = Profile(tasks[t].UID, tasks[t].Uname, 0, 0)
               /\ \A r \in UserInfoResponses(tasks[t].UID, FALSE) :
                      r.status = 200 /\ r.body = tasks[t].resp.body
               /\ \A r \in UserInfoResponses(tasks[t].UID, TRUE) : r.status = 500

\* a register of "u2" as "Bob" succeeded on a store that held "u1" alone
C12_Witness ==
    \E t \in Tasks :
        /\ ReturnedWith(t, 201)
        /\ tasks[t].UID = "u2"
        /\ tasks[t].Uname = "Bob"
        /\ \E d \in userdata : d.UID = "u1"

\* C13: a register call that passed its existence check and whose insert
\* the store's uniqueness constraint rejects, another call having inserted
\* the UID meanwhile, returns 409 and not 500.
C13_RejectedInsertIsConflict ==
    [][\A t \in Tasks :
          (/\ tasks[t].pc = "insert_one"
           /\ tasks'[t].pc # "insert_one"
           /\ unique_index
           /\ HasProfile(tasks[t].UID))
              => (tasks'[t].resp.status = 409 /\ tasks'[t].resp.status # 500)]_vars

\* C14: without a uniqueness constraint in the store, the store holds at
\* most one profile per UID and at most one of the register calls in
\* progress for a UID returns a created profile.
C14_OneProfilePerUid ==
    ~unique_index
        => /\ \A d, e \in userdata : d.UID = e.UID => d = e
           /\ \A t, u \in Tasks :
                  (ReturnedWith(t, 201) /\ ReturnedWith(u, 201)
                      /\ tasks[t].UID = tasks[u].UID) => t = u

\* C14, with the constraint in the store: one profile per UID at most
C14_HoldsWithUniqueIndex ==
    unique_index => \A d, e \in userdata : d.UID = e.UID => d = e

(***************************************************************************)
(* The anonymous reflection.                                               *)
(***************************************************************************)
IsAnonymous == req.op = "anonymous"

\* the generation service returned a response with non-empty text to the
\* one call of the request
ServiceGaveText ==
    /\ Len(calls) = 1
    /\ calls[1].outcome.kind = "response"
    /\ calls[1].outcome.text.t = "str"
    /\ calls[1].outcome.text.s # <<>>

\* C15: the anonymous reflection ends in 500 whenever the generation call
\* raised, returned no response or returned a response with empty or
\* missing text, and returns a reflection only when the service returned
\* non-empty text.
C15_GenerationFailed ==
    IsAnonymous
        => /\ ~ServiceGaveText => (resp.status = 500 /\ resp.body = NoBody)
           /\ resp.status = 200 => ServiceGaveText

\* the service answered with an empty text and the request ended in 500
C15_Witness ==
    /\ IsAnonymous
    /\ Len(calls) = 1
    /\ calls[1].outcome = [kind |-> "response", text |-> Str(<<>>)]
    /\ resp.status = 500

\* the raw text of the service and the reflection returned for it
RawText == calls[1].outcome.text.s

Reflection == resp.body.reflection

IsQuote(c) == c = "\""

\* C16: for a non-empty raw text the reflection returned has no leading or
\* trailing whitespace and no leading or trailing quote, and is the raw
\* text without whitespace and quotes at its two ends.
C16_ReflectionIsTrimmed ==
    (IsAnonymous /\ resp.status = 200)
        => /\ Reflection # <<>>
              => /\ ~IsSpace(Head(Reflection)) /\ ~IsQuote(Head(Reflection))
                 /\ ~IsSpace(Reflection[Len(Reflection)])
                 /\ ~IsQuote(Reflection[Len(Reflection)])
           /\ \E i \in 1..(Len(RawText) + 1), j \in 0..Len(RawText) :
                 /\ Reflection = SubSeq(RawText, i, j)
                 /\ \A k \in 1..Len(RawText) :
                        (k < i \/ k > j) => (IsSpace(RawText[k]) \/ IsQuote(RawText[k]))

\* C16, the part that holds: the reflection is the raw text without
\* whitespace and quotes at its two ends, and has no quote at either end
C16_EndsRemovedOnly ==
    (IsAnonymous /\ resp.status = 200)
        => /\ Reflection # <<>>
              => (~IsQuote(Head(Reflection)) /\ ~IsQuote(Reflection[Len(Reflection)]))
           /\ \E i \in 1..(Len(RawText) + 1), j \in 0..Len(RawText) :
                 /\ Reflection = SubSeq(RawText, i, j)
                 /\ \A k \in 1..Len(RawText) :
                        (k < i \/ k > j) => (IsSpace(RawText[k]) \/ IsQuote(RawText[k]))

\* C17: an anonymous reflection request makes at most one call to the
\* generation service, and exactly one when the client is available.
C17_OneGenerationCall ==
    IsAnonymous
        => /\ Len(calls) <= 1
           /\ client => Len(calls) = 1
           /\ \A i \in DOMAIN calls : calls[i].svc = "generation"

\* the one call raised and the request ended in 500 without a second call
C17_Witness ==
    /\ IsAnonymous
    /\ client
    /\ Len(calls) = 1
    /\ calls[1].outcome.kind = "exception"
    /\ resp.status = 500

(***************************************************************************)
(* What the endpoints write.                                               *)
(***************************************************************************)
\* task t inserts one document of its UID in this step, having passed its
\* existence check
InsertsProfile(t) ==
    /\ tasks[t].pc = "insert_one"
    /\ \E d \in userdata' :
          /\ d \notin userdata
          /\ d.UID = tasks[t].UID
          /\ userdata' = userdata \cup {d}

\* C18: the collections change only by the insert of a register call that
\* passed its existence check; every other step of every endpoint, a
\* register call that returns 409 included, leaves the user, journal and
\* weekly reflection collections as they are.
C18_OnlyRegisterWrites ==
    [][/\ journals' = journals
       /\ weekly_reflections' = weekly_reflections
       /\ userdata' # userdata => \E t \in Tasks : InsertsProfile(t)
       /\ \A t \in Tasks :
             (tasks[t].pc # "done" /\ tasks'[t].pc = "done" /\ tasks'[t].resp.status = 409)
                 => userdata' = userdata]_vars

\* a register call has inserted its document into a store that held another
C18_Witness ==
    \E t \in Tasks :
        /\ tasks[t].pc = "get_user_by_uid"
        /\ \E d, e \in userdata : d.UID = tasks[t].UID /\ e.UID # d.UID

(***************************************************************************)
(* The parser of the emotion breakdown.                                    *)
(***************************************************************************)
IsBreakdownOfText == req.op = "generate_emotion_breakdown"

\* the pairs the pattern finds in the response text
MatchesOfText == FindAll(req.text, 1)

\* the value of the number of a pair is in [0, 100]
Retained(match) ==
    LET value == Float(match.percent_str)
    IN  0 <= value.num /\ value.num <= 100 * value.den

\* the trimmed labels of the retained pairs
RetainedLabels ==
    {Strip(MatchesOfText[i].name) :
        i \in {k \in DOMAIN MatchesOfText : Retained(MatchesOfText[k])}}

SadCalm ==
    <<"S", "a", "d", "-", "1", "5", "0", ",", "C", "a", "l", "m", "-", "4", "0">>

\* C19: every percentage of a mapping the parser returns is in [0, 100]; a
\* pair out of the range is discarded and the pairs in the range of the same
\* text are kept: "Sad-150,Calm-40" gives exactly Calm: 40.
C19_PercentagesInRange ==
    (IsBreakdownOfText /\ ~resp.body.none)
        => LET dict == resp.body.dict
           IN  /\ \A i \in DOMAIN dict :
                      /\ 0 <= dict[i].percentage.num
                      /\ dict[i].percentage.num <= 100 * dict[i].percentage.den
               /\ {dict[i].emotion : i \in DOMAIN dict} = RetainedLabels
               /\ req.text = SadCalm
                      => dict = <<[emotion |-> <<"C", "a", "l", "m">>,
                                   percentage |-> [num |-> 40, den |-> 1]]>>

\* the parser has answered "Sad-150,Calm-40"
C19_Witness ==
    IsBreakdownOfText /\ req.text = SadCalm /\ ~resp.body.none /\ Len(resp.body.dict) = 1

\* C20: for every response text the parser returns a non-empty mapping or
\* None, None exactly when the text has no match or every match is
\* discarded; it never returns an empty mapping and never raises.
C20_MappingOrNone ==
    IsBreakdownOfText
        => /\ ~resp.body.raised
           /\ resp.body.none <=> (\A i \in DOMAIN MatchesOfText : ~Retained(MatchesOfText[i]))
           /\ resp.body.none => resp.body.dict = <<>>
           /\ ~resp.body.none => resp.body.dict # <<>>

\* a text with one match, discarded as out of range, has given None
C20_Witness ==
    /\ IsBreakdownOfText
    /\ Len(MatchesOfText) = 1
    /\ ~Retained(MatchesOfText[1])
    /\ resp.body.none

\* the indexes of the retained pairs
RetainedIndexes == {k \in DOMAIN MatchesOfText : Retained(MatchesOfText[k])}

\* the indexes of the retained pairs of a label
RetainedOf(label) == {k \in RetainedIndexes : Strip(MatchesOfText[k].name) = label}

Greatest(S) == CHOOSE m \in S : \A k \in S : k <= m

Least(S) == CHOOSE m \in S : \A k \in S : m <= k

\* the label of the text "A-1,B-2,A-3,C-4" that occurs twice
RepeatedLabelText ==
    <<"A", "-", "1", ",", "B", "-", "2", ",", "A", "-", "3", ",", "C", "-", "4">>

\* C21: a label of more than one retained pair has one entry in the mapping
\* the parser returns, and its percentage is that of the label's last
\* retained pair.
C21_LastRetainedWins ==
    (IsBreakdownOfText /\ ~resp.body.none)
        => LET dict == resp.body.dict
           IN  \A i \in DOMAIN dict :
                   /\ \A j \in DOMAIN dict : dict[j].emotion = dict[i].emotion => j = i
                   /\ RetainedOf(dict[i].emotion) # {}
                   /\ dict[i].percentage =
                          Float(MatchesOfText[Greatest(RetainedOf(dict[i].emotion))].percent_str)

\* the parser has answered "A-1,B-2,A-3,C-4": A has two retained pairs of
\* different percentages and the mapping holds the one entry A: 3
C21_Witness ==
    /\ IsBreakdownOfText
    /\ req.text = RepeatedLabelText
    /\ Cardinality(RetainedOf(<<"A">>)) = 2
    /\ ~resp.body.none
    /\ \E i \in DOMAIN resp.body.dict :
           resp.body.dict[i] = [emotion |-> <<"A">>, percentage |-> [num |-> 3, den |-> 1]]

\* the indexes of the pairs of a label, retained or discarded
OccurrencesOf(label) == {k \in DOMAIN MatchesOfText : Strip(MatchesOfText[k].name) = label}

\* the text "A-200,B-2,A-3,C 4, D - 5.50": the first pair of A is out of range
DiscardedFirstText ==
    <<"A", "-", "2", "0", "0", ",", "B", "-", "2", ",", "A", "-", "3", ",",
      "C", " ", "4", ",", " ", "D", " ", "-", " ", "5", ".", "5", "0">>

\* C22 as stated: the labels of the mapping the parser returns are in the
\* order of each label's first pair in the response text, a pair discarded
\* as out of range included.
C22_OrderOfFirstOccurrence ==
    (IsBreakdownOfText /\ ~resp.body.none)
        => LET dict == resp.body.dict
           IN  \A i, j \in DOMAIN dict :
                   i < j => Least(OccurrencesOf(dict[i].emotion))
                                < Least(OccurrencesOf(dict[j].emotion))

\* C22: the labels of the mapping the parser returns are in the order of
\* each label's first retained pair in the response text: a pair discarded
\* as out of range gives its label no place, a repeated label keeps the
\* place of its first retained pair.
C22_OrderOfFirstRetained ==
    (IsBreakdownOfText /\ ~resp.body.none)
        => LET dict == resp.body.dict
           IN  \A i, j \in DOMAIN dict :
                   i < j => Least(RetainedOf(dict[i].emotion))
                                < Least(RetainedOf(dict[j].emotion))

\* the parser has answered "A-200,B-2,A-3,C 4, D - 5.50" with B before A
C22_Witness ==
    /\ IsBreakdownOfText
    /\ req.text = DiscardedFirstText
    /\ ~resp.body.none
    /\ Len(resp.body.dict) = 3
    /\ resp.body.dict[1].emotion = <<"B">>
    /\ resp.body.dict[2].emotion = <<"A">>
    /\ Least(OccurrencesOf(<<"A">>)) < Least(OccurrencesOf(<<"B">>))

\* the text "Happy-30,Excited-23,Disappoint-12,Curiosity-20,Calm-15"
FivePairsText ==
    <<"H", "a", "p", "p", "y", "-", "3", "0", ",", "E", "x", "c", "i", "t",
      "e", "d", "-", "2", "3", ",", "D", "i", "s", "a", "p", "p", "o", "i",
      "n", "t", "-", "1", "2", ",", "C", "u", "r", "i", "o", "s", "i", "t",
      "y", "-", "2", "0", ",", "C", "a", "l", "m", "-", "1", "5">>

\* C23: the breakdown of a successful get_emotional_breakdown has exactly
\* the pairs of the mapping parsed from the generated text, in the same
\* order and with the same percentages.
C23_BreakdownIsTheMapping ==
    (IsEmotionalBreakdown /\ resp.status = 200)
        => /\ GotText
           /\ ~ParsedMapping.none
           /\ Len(resp.body) = Len(ParsedMapping.dict)
           /\ \A i \in DOMAIN resp.body :
                  /\ resp.body[i].emotion = ParsedMapping.dict[i].emotion
                  /\ resp.body[i].percentage = ParsedMapping.dict[i].percentage

\* a breakdown of the five pairs of "Happy-30,...,Calm-15" was returned
C23_Witness ==
    /\ IsEmotionalBreakdown
    /\ resp.status = 200
    /\ GotText
    /\ calls[2].outcome.text.s = FivePairsText
    /\ Len(resp.body) = 5
    /\ resp.body[5] = [emotion |-> <<"C", "a", "l", "m">>, percentage |-> [num |-> 15, den |-> 1]]

\* a generation call was made for the emotional breakdown
CalledGeneration == IsEmotionalBreakdown /\ Len(calls) = 2

\* the user's documents of the past 7 days with a non-empty prompt
PromptRecords(uid) ==
    {j \in RecordsOfPastWeek(uid) :
        "prompt" \in DOMAIN j /\ j.prompt.t = "str" /\ j.prompt.s # <<>>}

\* those documents, most recent first
MostRecentFirst(uid) ==
    {order \in [1..Cardinality(PromptRecords(uid)) -> PromptRecords(uid)] :
        /\ \A i, k \in DOMAIN order : i # k => order[i] # order[k]
        /\ \A i, k \in DOMAIN order : i < k => order[i].created_at >= order[k].created_at}

\* the text blob of a list of documents: their prompts joined by the separator
BlobOf(order) ==
    AnalyzePrefix \o Join(PromptSeparator, [i \in DOMAIN order |-> order[i].prompt.s])

\* C24: the generation request of get_emotional_breakdown carries the
\* system instruction SYSTEM_PROMPT_EMOTION_BREAKDOWN and one text blob
\* that holds every surviving prompt once, joined by the separator.
C24_SystemInstructionAndBlob ==
    CalledGeneration
        => /\ calls[2].system_instruction = SYSTEM_PROMPT_EMOTION_BREAKDOWN
           /\ Len(calls[2].contents) = 1
           /\ \E order \in MostRecentFirst(req.uid) : calls[2].contents[1] = BlobOf(order)

\* C24, the text blob alone: the request carries one text, which holds
\* every surviving prompt once, joined by the separator.
C24_OneBlobOfThePrompts ==
    CalledGeneration
        => /\ Len(calls[2].contents) = 1
           /\ \E order \in MostRecentFirst(req.uid) : calls[2].contents[1] = BlobOf(order)

\* the request was sent for two prompts, without a system instruction
C24_Witness ==
    /\ CalledGeneration
    /\ Cardinality(PromptRecords(req.uid)) = 2
    /\ calls[2].system_instruction = Null

\* C25: the prompts get_emotional_breakdown sends for analysis are exactly
\* the non-empty prompts of the user's journal documents created in
\* [now - 7 days, now), most recent first; documents of other users, out of
\* the window, or with an empty or missing prompt give nothing.
C25_PromptsOfPastWeek ==
    CalledGeneration
        => /\ PromptRecords(req.uid) # {}
           /\ \E order \in MostRecentFirst(req.uid) :
                  calls[2].contents = <<BlobOf(order)>>

\* u1's prompts p3 (the day's first tick) and p2 (7 days before now, to the
\* tick) were sent in this order, while the store also held a document of
\* u1 with no prompt, a null prompt or an empty one, out of the window, or
\* a document of u2 in the window
C25_Witness ==
    /\ CalledGeneration
    /\ req.uid = "u1"
    /\ calls[2].contents =
           <<AnalyzePrefix \o <<"p", "3">> \o PromptSeparator \o <<"p", "2">>>>
    /\ \E j \in journals : j.UID = "u1" /\ j.created_at = now - 7 * TicksPerDay
    /\ \E j \in journals : j \notin PromptRecords("u1")

\* the documents the find() of the past 7 days returns when it does not
\* fail: those of the user in the window whose prompt exists and is not ""
\* (a null prompt passes this filter)
RecordsInWindow(uid) ==
    {j \in RecordsOfPastWeek(uid) : "prompt" \in DOMAIN j /\ j.prompt # Str(<<>>)}

\* C26: when the find() returns at least one document and no document has
\* a non-empty prompt, get_emotional_breakdown ends in the 500 of a
\* processing failure: not in 404, not in a success, and without a
\* generation call.
C26_NoPromptIsProcessingFailure ==
    (/\ IsEmotionalBreakdown
     /\ ~calls[1].failed
     /\ RecordsInWindow(req.uid) # {}
     /\ PromptRecords(req.uid) = {})
        => /\ resp.status = 500
           /\ resp.detail = "Failed to process journal entries for analysis."
           /\ resp.body = NoBody
           /\ Len(calls) = 1

\* the find() returned the one document of u1 whose prompt is null and the
\* request ended in 500
C26_Witness ==
    /\ IsEmotionalBreakdown
    /\ req.uid = "u1"
    /\ ~calls[1].failed
    /\ \E j \in RecordsInWindow("u1") : j.prompt = Null
    /\ PromptRecords("u1") = {}
    /\ resp.status = 500

\* the positions of the generation calls among the calls of the request
GenerationCalls == {i \in DOMAIN calls : calls[i].svc = "generation"}

\* C28: a get_emotional_breakdown request calls the generation service at
\* most once, after the find() of the recent documents, and only when that
\* find() returned documents of which a non-empty prompt survived; a
\* request that ends in the 404 of no recent data or in the 500 of a
\* processing failure makes no generation call.
C28_AtMostOneCallAfterFetch ==
    IsEmotionalBreakdown
        => /\ Cardinality(GenerationCalls) <= 1
           /\ \A i \in GenerationCalls :
                  /\ i = 2
                  /\ calls[1].svc = "store"
                  /\ ~calls[1].failed
                  /\ RecordsInWindow(req.uid) # {}
                  /\ PromptRecords(req.uid) # {}
           /\ (resp.status = 404
                  \/ resp.detail = "Failed to process journal entries for analysis.")
                  => GenerationCalls = {}

\* the one generation call of a request raised and the request ended in
\* 500 without a second call
C28_Witness ==
    /\ IsEmotionalBreakdown
    /\ GenerationCalls = {2}
    /\ calls[2].outcome.kind = "exception"
    /\ resp.status = 500

(***************************************************************************)
(* Registrations on a collection with a document that does not parse.      *)
(***************************************************************************)
\* the document has the display name the profile model requires
HasName(d) == "Uname" \in DOMAIN d

\* the re-read of task t ends in this step
Rereads(t) == tasks[t].pc = "get_user_by_uid" /\ tasks'[t].pc = "done"

\* C27: when the insert of a register call has succeeded and the re-read
\* that follows returns no profile, the call ends in 500 (a server error)
\* without a payload: not in a success, not in 404 and not in 409.
C27_RereadMissIsServerError ==
    [][\A t \in Tasks :
          (Rereads(t) /\ tasks'[t].created_user = <<>>)
              => /\ tasks'[t].resp.status = 500
                 /\ tasks'[t].resp.detail = "Failed to register user due to a database error."
                 /\ tasks'[t].resp.body = NoBody]_vars

\* on a collection without a unique index a call has inserted its document
\* next to one of the same UID that does not parse, its re-read came upon
\* the latter and returned nothing, and the call ended in 500
C27_Witness ==
    \E t \in Tasks :
        /\ ~unique_index
        /\ tasks[t].pc = "done"
        /\ tasks[t].created_user = <<>>
        /\ tasks[t].resp.status = 500
        /\ \E d \in userdata :
               HasName(d) /\ d.UID = tasks[t].UID /\ d.Uname = tasks[t].Uname /\ d.Ustreak = 0
        /\ \E d \in userdata : ~HasName(d) /\ d.UID = tasks[t].UID

\* C29: a register call for a UID the collection holds a document of, a
\* document that does not parse included, returns 409, and no document is
\* inserted next to a document of the same UID that does not parse.
C29_AnyDocumentConflicts ==
    [][/\ \A t \in Tasks :
             (Starts(t) /\ HasProfile(tasks'[t].UID))
                 => tasks'[t].pc = "done" /\ tasks'[t].resp.status = 409
       /\ \A d \in userdata' \ userdata :
             \A e \in userdata : ~HasName(e) => e.UID # d.UID]_vars

\* C29 for the documents that parse: when the store answers and every
\* document of the UID parses, a register call for the UID returns 409.
C29_ParsedDocumentConflicts ==
    [][\A t \in Tasks :
          (/\ Starts(t)
           /\ HasProfile(tasks'[t].UID)
           /\ \A d \in userdata : d.UID = tasks'[t].UID => HasName(d))
              => tasks'[t].pc = "done" /\ tasks'[t].resp.status = 409]_vars

\* a register call has returned 201 for a UID of which the collection
\* holds a document that does not parse: two documents have the UID
C29_Witness ==
    \E t \in Tasks :
        /\ tasks[t].pc = "done"
        /\ tasks[t].resp.status = 201
        /\ \E d, e \in userdata :
               d.UID = tasks[t].UID /\ e.UID = tasks[t].UID /\ ~HasName(d) /\ HasName(e)

(***************************************************************************)
(* The empty reflection.                                                   *)
(***************************************************************************)
\* the raw text is nothing but whitespace and double quotes
OnlySpaceAndQuotes(text) == \A k \in DOMAIN text : IsSpace(text[k]) \/ IsQuote(text[k])

\* C30: a successful anonymous reflection is never the empty string, and a
\* service text that is empty once whitespace and wrapping quotes are
\* removed ends the request in 500.
C30_ReflectionNeverEmpty ==
    IsAnonymous
        => /\ resp.status = 200 => Reflection # <<>>
           /\ (ServiceGaveText /\ OnlySpaceAndQuotes(RawText)) => resp.status = 500

\* C30, what the code gives: a successful reflection is empty exactly when
\* the service's non-empty text is nothing but whitespace or one run of
\* double quotes between whitespace.
C30_EmptyOnlyForSpaceAndQuotes ==
    (IsAnonymous /\ resp.status = 200 /\ Reflection = <<>>)
        => ServiceGaveText /\ OnlySpaceAndQuotes(RawText)

\* the service answered with two double quotes and the request returned
\* 200 with the empty reflection
C30_Witness ==
    /\ IsAnonymous
    /\ ServiceGaveText
    /\ RawText = <<"\"", "\"">>
    /\ resp.status = 200
    /\ Reflection = <<>>

====
